---- MODULE Spec2Model ----
(***************************************************************************)
(* pymap3d/latitude.py: conversions between geodetic latitude and the      *)
(* auxiliary latitudes (geocentric, isometric, conformal, rectifying,      *)
(* authalic, parametric).                                                  *)
(*                                                                         *)
(* The module is a library of pure functions of (latitude, ellipsoid,      *)
(* unit flag).  Its state is the module-level flag use_numpy, the          *)
(* ellipsoid objects the caller holds, and the call in progress.           *)
(*                                                                         *)
(* Floating-point numbers are modelled as signed decimal fixed-point       *)
(* numbers with 12 fractional digits, held in five limbs of base 10^4      *)
(* (range 10^8), together with the IEEE special values +inf, -inf and nan. *)
(* Every library function the source imports (sin, tan, atan, asinh,       *)
(* atanh, exp, sqrt, radians, degrees) is computed by a series on these    *)
(* numbers, to about 10^-11.                                               *)
(***************************************************************************)
EXTENDS Integers, Sequences, FiniteSets, TLC

VARIABLES use_numpy, ellipsoids, pc, call, result

vars == <<use_numpy, ellipsoids, pc, call, result>>

(***************************************************************************)
(* Limb arithmetic on magnitudes.  A magnitude is <<m1, m2, m3, m4, m5>>,  *)
(* least significant limb first; it stands for                             *)
(*   (m1 + m2*10^4 + m3*10^8 + m4*10^12 + m5*10^16) / 10^12.               *)
(* No intermediate value leaves the 32-bit integers.                       *)
(***************************************************************************)
Base == 10000

Zero5 == <<0, 0, 0, 0, 0>>

Min(a, b) == IF a < b THEN a ELSE b

\* a < b on the limbs i, i-1, ..., 1.
RECURSIVE LtFrom(_, _, _)
LtFrom(a, b, i) ==
    IF i = 0 THEN FALSE
    ELSE IF a[i] # b[i] THEN a[i] < b[i] ELSE LtFrom(a, b, i - 1)

MagLt(a, b) == LtFrom(a, b, 5)

Lt6(a, b) == LtFrom(a, b, 6)

\* a + b from limb i on with carry c; the sixth limb is the carry out.
RECURSIVE AddFrom(_, _, _, _)
AddFrom(a, b, i, c) ==
    IF i > 5 THEN <<c>>
    ELSE <<(a[i] + b[i] + c) % Base>>
         \o AddFrom(a, b, i + 1, (a[i] + b[i] + c) \div Base)

MagAdd(a, b) == AddFrom(a, b, 1, 0)

\* a - b on n limbs for a >= b (\div rounds down, so a borrow is -1).
RECURSIVE SubFrom(_, _, _, _, _)
SubFrom(a, b, n, i, c) ==
    IF i > n THEN <<>>
    ELSE <<(a[i] - b[i] + c) % Base>>
         \o SubFrom(a, b, n, i + 1, (a[i] - b[i] + c) \div Base)

MagSub(a, b) == SubFrom(a, b, 5, 1, 0)

Sub6(a, b) == SubFrom(a, b, 6, 1, 0)

\* The sum of the limb products a[i] * b[j] of weight Base^k (i + j = k + 2);
\* bp is b between four zero limbs below and above.
Column(a, bp, k) ==
    a[1] * bp[k + 5] + a[2] * bp[k + 4] + a[3] * bp[k + 3]
    + a[4] * bp[k + 2] + a[5] * bp[k + 1]

\* The limbs of a product from column k on; t is column k with the carry
\* from below.  Column 8 is the overflow.
RECURSIVE MulFrom(_, _, _, _)
MulFrom(a, bp, k, t) ==
    IF k = 8 THEN <<t>>
    ELSE <<t % Base>>
         \o MulFrom(a, bp, k + 1, Column(a, bp, k + 1) + t \div Base)

\* The carry of the columns 0..2, which are rounded away (half up).
MulRound(a, bp) ==
    (Column(a, bp, 2)
     + (Column(a, bp, 1) + Column(a, bp, 0) \div Base) \div Base
     + Base \div 2) \div Base

MulPadded(a, bp) == MulFrom(a, bp, 3, Column(a, bp, 3) + MulRound(a, bp))

\* a * b rounded to 12 fractional digits; a non-zero sixth limb is overflow.
MagMul(a, b) == MulPadded(a, <<0, 0, 0, 0>> \o b \o <<0, 0, 0, 0>>)

\* a * d for one limb d; six limbs.
RECURSIVE SmallFrom(_, _, _, _)
SmallFrom(a, d, i, c) ==
    IF i > 5 THEN <<c>>
    ELSE <<(a[i] * d + c) % Base>>
         \o SmallFrom(a, d, i + 1, (a[i] * d + c) \div Base)

MulSmall(a, d) == SmallFrom(a, d, 1, 0)

\* floor(a / d) for an integer 0 < d <= 214748; r is the remainder so far.
RECURSIVE DivSmallFrom(_, _, _, _)
DivSmallFrom(a, d, i, r) ==
    IF i = 0 THEN <<>>
    ELSE DivSmallFrom(a, d, i - 1, (r * Base + a[i]) % d)
         \o <<(r * Base + a[i]) \div d>>

MagDivSmall(a, d) == DivSmallFrom(a, d, 5, 0)

\* Index of the most significant non-zero limb.
Top(b) ==
    IF b[5] # 0 THEN 5 ELSE IF b[4] # 0 THEN 4 ELSE IF b[3] # 0 THEN 3
    ELSE IF b[2] # 0 THEN 2 ELSE 1

\* Long division, one quotient limb: the largest q with q * bn <= R,
\* searched downwards from an estimate on the leading limbs.
RECURSIVE Search(_, _, _)
Search(R, bn, q) ==
    IF Lt6(R, MulSmall(bn, q)) THEN Search(R, bn, q - 1) ELSE q

Digit(R, bn, h) ==
    IF Lt6(R, bn) THEN 0
    ELSE Search(R, bn, Min(Base - 1, (R[h + 1] * Base + R[h] + 1) \div bn[h]))

\* Long division: R is the remainder with limb i of the dividend D brought
\* down, q the quotient limbs above limb i.  DivTake takes the quotient
\* limb d off R and brings the next limb down.
RECURSIVE DivLoop(_, _, _, _, _, _)
DivTake(D, bn, h, i, R, d, q) ==
    IF i = 1 THEN <<d>> \o q
    ELSE IF d = 0
         THEN DivLoop(D, bn, h, i - 1, <<D[i - 1]>> \o SubSeq(R, 1, 5), <<d>> \o q)
    ELSE DivLoop(D, bn, h, i - 1,
                 <<D[i - 1]>> \o SubSeq(Sub6(R, MulSmall(bn, d)), 1, 5), <<d>> \o q)

DivLoop(D, bn, h, i, R, q) == DivTake(D, bn, h, i, R, Digit(R, bn, h), q)

\* an / bn for a divisor whose leading limb h is at least Base/2, which
\* keeps the digit estimate within 3 of the digit.  A quotient of 10^20 or
\* more is overflow: a non-zero sixth limb.
MagDivScaled(an, bn, h) ==
    IF ~Lt6(<<an[3], an[4], an[5], an[6], 0, 0>>, bn) THEN <<0, 0, 0, 0, 0, 1>>
    ELSE DivLoop(<<0, 0, 0, an[1]>>, bn, h, 5,
                 <<an[2], an[3], an[4], an[5], an[6], 0>>, <<0>>)

MagDivBy(a, b, h, f) == MagDivScaled(MulSmall(a, f), MulSmall(b, f), h)

\* floor(a * 10^12 / b) for b # 0; six limbs.
MagDiv(a, b) == MagDivBy(a, b, Top(b), Base \div (b[Top(b)] + 1))

(***************************************************************************)
(* Numbers: [k, s, m] with k the kind ("fin", "inf", "nan"), s the sign    *)
(* (1 or -1; zero has sign 1) and m the magnitude.                         *)
(***************************************************************************)
Fin(s, m) == [k |-> "fin", s |-> IF m = Zero5 THEN 1 ELSE s, m |-> m]

Inf(s) == [k |-> "inf", s |-> s, m |-> Zero5]

NaN == [k |-> "nan", s |-> 1, m |-> Zero5]

\* The number of sign s and six-limb magnitude r, the sixth limb overflow.
Pack(s, r) == IF r[6] # 0 THEN Inf(s) ELSE Fin(s, SubSeq(r, 1, 5))

\* The decimal i5 i4 . f3 f2 f1 (each a group of four digits).
Lit(s, i5, i4, f3, f2, f1) == Fin(s, <<f1, f2, f3, i4, i5>>)

FromInt(n) ==
    Fin(IF n >= 0 THEN 1 ELSE -1,
        <<0, 0, 0, (IF n >= 0 THEN n ELSE -n) % Base,
          (IF n >= 0 THEN n ELSE -n) \div Base>>)

Zero == Lit(1, 0, 0, 0, 0, 0)

One == Lit(1, 0, 1, 0, 0, 0)

Two == Lit(1, 0, 2, 0, 0, 0)

IsZero(x) == x.k = "fin" /\ x.m = Zero5

Neg(x) ==
    IF x.k = "nan" THEN NaN
    ELSE IF x.k = "inf" THEN Inf(-x.s) ELSE Fin(-x.s, x.m)

Abs(x) == IF x.k = "nan" THEN NaN ELSE [x EXCEPT !.s = 1]

Add(x, y) ==
    IF x.k = "nan" \/ y.k = "nan" THEN NaN
    ELSE IF x.k = "inf" THEN (IF y.k = "inf" /\ y.s # x.s THEN NaN ELSE x)
    ELSE IF y.k = "inf" THEN y
    ELSE IF x.s = y.s THEN Pack(x.s, MagAdd(x.m, y.m))
    ELSE IF MagLt(x.m, y.m) THEN Fin(y.s, MagSub(y.m, x.m))
    ELSE Fin(x.s, MagSub(x.m, y.m))

Sub(x, y) == Add(x, Neg(y))

Mul(x, y) ==
    IF x.k = "nan" \/ y.k = "nan" THEN NaN
    ELSE IF x.k = "inf" \/ y.k = "inf"
         THEN (IF IsZero(x) \/ IsZero(y) THEN NaN ELSE Inf(x.s * y.s))
    ELSE Pack(x.s * y.s, MagMul(x.m, y.m))

\* IEEE division: x / 0 is an infinity, 0 / 0 is nan.
Div(x, y) ==
    IF x.k = "nan" \/ y.k = "nan" THEN NaN
    ELSE IF x.k = "inf" THEN (IF y.k = "inf" THEN NaN ELSE Inf(x.s * y.s))
    ELSE IF y.k = "inf" THEN Zero
    ELSE IF IsZero(y) THEN (IF IsZero(x) THEN NaN ELSE Inf(x.s * y.s))
    ELSE Pack(x.s * y.s, MagDiv(x.m, y.m))

\* x / d for an integer literal 0 < d <= 214748.
DivInt(x, d) == IF x.k # "fin" THEN x ELSE Fin(x.s, MagDivSmall(x.m, d))

\* x * d for an integer literal 0 <= d < Base (0 < d for an infinite x).
MulInt(x, d) == IF x.k # "fin" THEN x ELSE Pack(x.s, MulSmall(x.m, d))

Lt(x, y) ==
    IF x.k = "nan" \/ y.k = "nan" \/ x = y THEN FALSE
    ELSE IF x.k = "inf" THEN x.s < 0
    ELSE IF y.k = "inf" THEN y.s > 0
    ELSE IF x.s # y.s THEN x.s < y.s
    ELSE IF x.s > 0 THEN MagLt(x.m, y.m) ELSE MagLt(y.m, x.m)

Le(x, y) == x.k # "nan" /\ y.k # "nan" /\ ~Lt(y, x)

\* x ** k for an integer literal k: p * x * ... * x, k factors x.
RECURSIVE PowFrom(_, _, _)
PowFrom(x, k, p) ==
    IF k = 0 \/ p.k = "nan" THEN p ELSE PowFrom(x, k - 1, Mul(p, x))

IntPow(x, k) == PowFrom(x, k, One)

(***************************************************************************)
(* The numeric library the source imports (numpy, or math when numpy is    *)
(* missing): constants and elementary functions.                           *)
(***************************************************************************)
\* pi = 3.141592653588, written so that pi / 2 and pi / 4 are exact, as
\* halving is in binary floating point.
pi == Lit(1, 0, 3, 1415, 9265, 3588)

HalfPi == Lit(1, 0, 1, 5707, 9632, 6794)

QuarterPi == Lit(1, 0, 0, 7853, 9816, 3397)

inf == Inf(1)

\* ln 2 = 0.693147180560
Ln2 == Lit(1, 0, 0, 6931, 4718, 560)

\* sqrt 2, tan(pi/8) and tan(pi/16)
Sqrt2 == Lit(1, 0, 1, 4142, 1356, 2373)

TanPi8 == Lit(1, 0, 0, 4142, 1356, 2373)

TanPi16 == Lit(1, 0, 0, 1989, 1236, 7380)

radians(x) == DivInt(Mul(x, pi), 180)

degrees(x) == Div(MulInt(x, 180), pi)

\* The integer nearest to q, for a small finite q >= 0.
Nearest(q) ==
    q.m[4] + Base * q.m[5] + (IF q.m[3] >= Base \div 2 THEN 1 ELSE 0)

\* Taylor series of sin and cos on [-pi/4, pi/4]: sum is the sum of the
\* terms before term, the k-th.
RECURSIVE SinLoop(_, _, _, _)
SinLoop(r2, k, term, sum) ==
    IF k > 9 \/ IsZero(term) \/ sum.k # "fin" THEN Add(sum, term)
    ELSE SinLoop(r2, k + 1, Neg(DivInt(Mul(term, r2), (2 * k) * (2 * k + 1))),
                 Add(sum, term))

SinSeries(r) == SinLoop(Mul(r, r), 1, r, Zero)

RECURSIVE CosLoop(_, _, _, _)
CosLoop(r2, k, term, sum) ==
    IF k > 9 \/ IsZero(term) \/ sum.k # "fin" THEN Add(sum, term)
    ELSE CosLoop(r2, k + 1, Neg(DivInt(Mul(term, r2), (2 * k - 1) * (2 * k))),
                 Add(sum, term))

CosSeries(r) == CosLoop(Mul(r, r), 1, One, Zero)

\* The sine and cosine of q quarter turns more than an angle of sine ss and
\* cosine cc.
Turned(q, ss, cc) ==
    <<IF q = 0 THEN ss ELSE IF q = 1 THEN cc
      ELSE IF q = 2 THEN Neg(ss) ELSE Neg(cc),
      IF q = 0 THEN cc ELSE IF q = 1 THEN Neg(ss)
      ELSE IF q = 2 THEN Neg(cc) ELSE ss>>

SinCosRest(k, r) == Turned(k % 4, SinSeries(r), CosSeries(r))

SinCosTurns(a, k) == SinCosRest(k, Sub(a, MulInt(HalfPi, k)))

\* <<sin a, cos a>> for finite a >= 0: reduce a by the nearest multiple of
\* pi/2.
SinCos(a) == SinCosTurns(a, Nearest(Div(a, HalfPi)))

\* sin is odd, cos is even.
RECURSIVE sin(_)
sin(x) ==
    IF x.k # "fin" THEN NaN
    ELSE IF x.s < 0 THEN Neg(sin(Abs(x))) ELSE SinCos(x)[1]

cos(x) == IF x.k # "fin" THEN NaN ELSE SinCos(Abs(x))[2]

\* tan x = sin x / cos x; at pi/2, where cos is 0 to 12 digits, an infinity
\* (the floating-point tan returns a huge finite number there).
tan(x) == IF x.k # "fin" THEN NaN ELSE Div(sin(x), cos(x))

\* Taylor series of atan for |x| <= tan(pi/16): sum is the sum of the terms
\* before the k-th, p / (2k - 1).
RECURSIVE AtanLoop(_, _, _, _)
AtanLoop(x2, k, p, sum) ==
    IF k > 12 \/ IsZero(p) \/ sum.k # "fin" THEN Add(sum, DivInt(p, 2 * k - 1))
    ELSE AtanLoop(x2, k + 1, Neg(Mul(p, x2)), Add(sum, DivInt(p, 2 * k - 1)))

AtanSeries(x) == AtanLoop(Mul(x, x), 1, x, Zero)

\* atan is odd; atan x = pi/2 - atan(1/x) above 1,
\* atan x = pi/4 + atan((x - 1)/(x + 1)) above tan(pi/8),
\* atan x = pi/8 + atan((x - t)/(1 + x t)), t = tan(pi/8), above tan(pi/16).
RECURSIVE atan(_)
atan(x) ==
    IF x.k = "nan" THEN NaN
    ELSE IF x.k = "inf" THEN (IF x.s > 0 THEN HalfPi ELSE Neg(HalfPi))
    ELSE IF x.s < 0 THEN Neg(atan(Abs(x)))
    ELSE IF Lt(One, x) THEN Sub(HalfPi, atan(Div(One, x)))
    ELSE IF Lt(TanPi8, x)
         THEN Add(QuarterPi, atan(Div(Sub(x, One), Add(x, One))))
    ELSE IF Lt(TanPi16, x)
         THEN Add(DivInt(QuarterPi, 2),
                  atan(Div(Sub(x, TanPi8), Add(One, Mul(x, TanPi8)))))
    ELSE AtanSeries(x)

\* Taylor series of exp for |r| <= ln(2)/2: sum is the sum of the terms
\* before t, the k-th.
RECURSIVE ExpLoop(_, _, _, _)
ExpLoop(r, k, t, sum) ==
    IF k > 16 \/ IsZero(t) \/ sum.k # "fin" THEN Add(sum, t)
    ELSE ExpLoop(r, k + 1, DivInt(Mul(t, r), k), Add(sum, t))

RECURSIVE Double(_, _)
Double(x, k) ==
    IF k = 0 \/ x.k # "fin" THEN x ELSE Double(MulInt(x, 2), k - 1)

\* 2^k * exp(x - k ln 2)
ExpScaled(x, k) == Double(ExpLoop(Sub(x, MulInt(Ln2, k)), 1, One, Zero), k)

\* exp x for x >= 0 and q = x / ln 2: beyond the range of the numbers an
\* infinity, else scaled by the power of 2 nearest to q.
ExpBy(x, q) ==
    IF q.m[5] # 0 \/ q.m[4] >= 40 THEN inf ELSE ExpScaled(x, Nearest(q))

\* exp(-x) = 1 / exp x.
RECURSIVE exp(_)
exp(x) ==
    IF x.k = "nan" THEN NaN
    ELSE IF x.k = "inf" THEN (IF x.s > 0 THEN inf ELSE Zero)
    ELSE IF x.s < 0 THEN Div(One, exp(Neg(x)))
    ELSE ExpBy(x, Div(x, Ln2))

\* Series of atanh for |y| <= 0.2: sum is the sum of the terms before the
\* k-th, p / (2k - 1).
RECURSIVE AtanhLoop(_, _, _, _)
AtanhLoop(y2, k, p, sum) ==
    IF k > 11 \/ IsZero(p) \/ sum.k # "fin" THEN Add(sum, DivInt(p, 2 * k - 1))
    ELSE AtanhLoop(y2, k + 1, Mul(p, y2), Add(sum, DivInt(p, 2 * k - 1)))

AtanhSeries(y) == AtanhLoop(Mul(y, y), 1, y, Zero)

\* ln x for x >= 1: halve x down to at most sqrt 2, then
\* ln x = k ln 2 + 2 atanh((x - 1)/(x + 1)).
RECURSIVE LnGe1(_, _)
LnGe1(x, k) ==
    IF Lt(Sqrt2, x) THEN (IF k < 64 THEN LnGe1(DivInt(x, 2), k + 1) ELSE NaN)
    ELSE Add(MulInt(Ln2, k),
             MulInt(AtanhSeries(Div(Sub(x, One), Add(x, One))), 2))

\* ln x = -ln(1/x) below 1.
RECURSIVE Ln(_)
Ln(x) ==
    IF x.k = "nan" \/ (x.s < 0 /\ ~IsZero(x)) THEN NaN
    ELSE IF IsZero(x) THEN Neg(inf)
    ELSE IF x.k = "inf" THEN x
    ELSE IF Lt(x, One) THEN Neg(Ln(Div(One, x)))
    ELSE LnGe1(x, 0)

\* x ** y for x > 0 and a real y.
Pow(x, y) ==
    IF IsZero(y) THEN One
    ELSE IF x.k = "inf" THEN x
    ELSE exp(Mul(y, Ln(x)))

\* floor(sqrt t) for an integer 1 <= t < 10^8, by Newton's iteration.
RECURSIVE ISqrtIter(_, _)
ISqrtIter(t, s) ==
    IF (s + t \div s) \div 2 >= s THEN s ELSE ISqrtIter(t, (s + t \div s) \div 2)

ISqrt(t) == ISqrtIter(t, Base)

\* The root s of the two leading limbs, put where the leading limb h says.
SqrtPlace(h, s) ==
    IF h = 5 THEN <<0, 0, 0, s, 0>>
    ELSE IF h = 4 THEN <<0, 0, (s * 100) % Base, (s * 100) \div Base, 0>>
    ELSE IF h = 3 THEN <<0, 0, s, 0, 0>>
    ELSE IF h = 2 THEN <<0, (s * 100) % Base, (s * 100) \div Base, 0, 0>>
    ELSE <<0, s, 0, 0, 0>>

SqrtLead(m, h) ==
    SqrtPlace(h, ISqrt(m[h] * Base + (IF h > 1 THEN m[h - 1] ELSE 0)))

\* A first guess of sqrt.
SqrtGuess(m) == Fin(1, SqrtLead(m, Top(m)))

\* Newton's iteration y <- (y + x / y) / 2, until it stands still or n more
\* steps are done; prev is the iterate before y.
Newton(x, y) == DivInt(Add(y, Div(x, y)), 2)

RECURSIVE SqrtIter(_, _, _, _)
SqrtIter(x, prev, y, n) ==
    IF n = 0 \/ y = prev THEN y ELSE SqrtIter(x, y, Newton(x, y), n - 1)

SqrtFrom(x, guess) == SqrtIter(x, guess, Newton(x, guess), 6)

sqrt(x) ==
    IF x.k = "nan" \/ (x.s < 0 /\ ~IsZero(x)) THEN NaN
    ELSE IF x.k = "inf" \/ IsZero(x) THEN x
    ELSE SqrtFrom(x, SqrtGuess(x.m))

\* asinh is odd; asinh x = ln(x + sqrt(x^2 + 1)).
RECURSIVE asinh(_)
asinh(x) ==
    IF x.k # "fin" THEN x
    ELSE IF x.s < 0 THEN Neg(asinh(Neg(x)))
    ELSE Ln(Add(x, sqrt(Add(Mul(x, x), One))))

\* atanh is odd; atanh x = ln((1 + x)/(1 - x)) / 2, infinite at 1.
RECURSIVE atanh(_)
atanh(x) ==
    IF x.k # "fin" \/ Lt(One, Abs(x)) THEN NaN
    ELSE IF x.s < 0 THEN Neg(atanh(Neg(x)))
    ELSE IF x = One THEN inf
    ELSE DivInt(Ln(Div(Add(One, x), Sub(One, x))), 2)

(***************************************************************************)
(* The ellipsoids.  latitude.py reads two attributes of an Ellipsoid,      *)
(* eccentricity and thirdflattening, and nothing else.                     *)
(***************************************************************************)
\* ell = None: no ellipsoid given.
None == [none |-> TRUE]

\* Ellipsoid(): the default, WGS84 (e = 0.081819190843, n = 0.001679220386).
Ellipsoid ==
    [eccentricity    |-> Lit(1, 0, 0, 818, 1919, 843),
     thirdflattening |-> Lit(1, 0, 0, 16, 7922, 386)]

\* The ellipsoid objects the caller holds: a nearly spherical one
\* (b/a = 0.9999995: e = 0.001, n = 0.00000025) and a highly eccentric one
\* (b/a = 0.8: e = 0.6, n = 1/9).
EllipsoidModels ==
    [nearsphere |-> [eccentricity    |-> Lit(1, 0, 0, 10, 0, 0),
                     thirdflattening |-> Lit(1, 0, 0, 0, 25, 0)],
     eccentric  |-> [eccentricity    |-> Lit(1, 0, 0, 6000, 0, 0),
                     thirdflattening |-> Lit(1, 0, 0, 1111, 1111, 1111)]]

\* The ell argument of a call: None or the name of an ellipsoid object.
EllArgs == {"None"} \cup DOMAIN EllipsoidModels

\* The object an ell argument denotes.
EllObj(name) == IF name = "None" THEN None ELSE ellipsoids[name]

(***************************************************************************)
(* utils.sanitize: the latitude in radians and the ellipsoid, Ellipsoid()  *)
(* when none is given.                                                     *)
(***************************************************************************)
sanitize(lat, ell, deg) ==
    <<IF deg THEN radians(lat) ELSE lat, IF ell = None THEN Ellipsoid ELSE ell>>

\* Whether a / b raises ZeroDivisionError: Python floats (math) raise on a
\* zero divisor, numpy floats return an infinity and warn.
ZeroDivisionError(a, b) == ~use_numpy /\ IsZero(b)

\* What a call that ends in an exception leaves its caller with.
Raised(exception) == [raised |-> exception]

(***************************************************************************)
(* Array-shaped input: [array |-> <<x1, ..., xn>>].                        *)
(***************************************************************************)
IsArray(x) == "array" \in DOMAIN x

(***************************************************************************)
(* The twelve conversions.  Each is preceded, where a property below is    *)
(* tested against one, by a faulty variant of it: the property must tell   *)
(* the two apart.                                                          *)
(***************************************************************************)
\* Faulty: the input is taken as radians whatever the flag says.
geodetic2geocentric_unconverted(geodetic_lat, ell, deg) ==
    LET s == sanitize(geodetic_lat, ell, FALSE)
        geocentric_lat ==
            atan(Mul(Sub(One, IntPow(s[2].eccentricity, 2)), tan(s[1])))
    IN  IF deg THEN degrees(geocentric_lat) ELSE geocentric_lat

geodetic2geocentric(geodetic_lat, ell, deg) ==
    LET s == sanitize(geodetic_lat, ell, deg)
        geocentric_lat ==
            atan(Mul(Sub(One, IntPow(s[2].eccentricity, 2)), tan(s[1])))
    IN  IF deg THEN degrees(geocentric_lat) ELSE geocentric_lat

\* Faulty: the sign of the latitude is dropped.
geocentric2geodetic_even(geocentric_lat, ell, deg) ==
    LET s == sanitize(geocentric_lat, ell, deg)
        geodetic_lat ==
            atan(Div(tan(Abs(s[1])), Sub(One, IntPow(s[2].eccentricity, 2))))
    IN  IF deg THEN degrees(geodetic_lat) ELSE geodetic_lat

geocentric2geodetic(geocentric_lat, ell, deg) ==
    LET s == sanitize(geocentric_lat, ell, deg)
        geodetic_lat ==
            atan(Div(tan(s[1]), Sub(One, IntPow(s[2].eccentricity, 2))))
    IN  IF deg THEN degrees(geodetic_lat) ELSE geodetic_lat

\* 1e-9, the width of the pole test of geodetic2isometric_point.
PoleTol == Lit(1, 0, 0, 0, 0, 1000)

\* Faulty: the two pole branches are exchanged.
geodetic2isometric_point_exchanged(geodetic_lat, ell, deg) ==
    LET s == sanitize(geodetic_lat, ell, deg)
        lat == s[1]
        e == s[2].eccentricity
        isometric_lat ==
            IF Le(Abs(Sub(lat, Div(pi, Two))), PoleTol) THEN Neg(inf)
            ELSE IF Le(Abs(Sub(Neg(lat), Div(pi, Two))), PoleTol) THEN inf
            ELSE Sub(asinh(tan(lat)), Mul(e, atanh(Mul(e, sin(lat)))))
    IN  IF deg THEN degrees(isometric_lat) ELSE isometric_lat

geodetic2isometric_point(geodetic_lat, ell, deg) ==
    LET s == sanitize(geodetic_lat, ell, deg)
        lat == s[1]
        e == s[2].eccentricity
        isometric_lat ==
            IF Le(Abs(Sub(lat, Div(pi, Two))), PoleTol) THEN inf
            ELSE IF Le(Abs(Sub(Neg(lat), Div(pi, Two))), PoleTol) THEN Neg(inf)
            ELSE Sub(asinh(tan(lat)), Mul(e, atanh(Mul(e, sin(lat)))))
    IN  IF deg THEN degrees(isometric_lat) ELSE isometric_lat

\* Faulty: every element of an array gets the result of the first.
geodetic2isometric_first(geodetic_lat, ell, deg) ==
    IF use_numpy /\ IsArray(geodetic_lat)
    THEN [array |-> [i \in DOMAIN geodetic_lat.array |->
                        geodetic2isometric_point(geodetic_lat.array[1], ell, deg)]]
    ELSE geodetic2isometric_point(geodetic_lat, ell, deg)

\* With numpy the point function is vectorized: applied to each element of
\* an array, to a scalar as it is.
geodetic2isometric(geodetic_lat, ell, deg) ==
    IF use_numpy /\ IsArray(geodetic_lat)
    THEN [array |-> [i \in DOMAIN geodetic_lat.array |->
                        geodetic2isometric_point(geodetic_lat.array[i], ell, deg)]]
    ELSE geodetic2isometric_point(geodetic_lat, ell, deg)

conformal2geodetic(conformal_lat_in, ell, deg) ==
    LET s == sanitize(conformal_lat_in, ell, deg)
        conformal_lat == s[1]
        e == s[2].eccentricity
        f1 == Add(Add(Add(DivInt(IntPow(e, 2), 2),
                          DivInt(MulInt(IntPow(e, 4), 5), 24)),
                      DivInt(IntPow(e, 6), 12)),
                  DivInt(MulInt(IntPow(e, 8), 13), 360))
        f2 == Add(Add(DivInt(MulInt(IntPow(e, 4), 7), 48),
                      DivInt(MulInt(IntPow(e, 6), 29), 240)),
                  DivInt(MulInt(IntPow(e, 8), 811), 11520))
        f3 == Add(DivInt(MulInt(IntPow(e, 6), 7), 120),
                  DivInt(MulInt(IntPow(e, 8), 81), 1120))
        f4 == DivInt(MulInt(IntPow(e, 8), 4279), 161280)
        geodetic_lat ==
            Add(Add(Add(Add(conformal_lat,
                            Mul(f1, sin(MulInt(conformal_lat, 2)))),
                        Mul(f2, sin(MulInt(conformal_lat, 4)))),
                    Mul(f3, sin(MulInt(conformal_lat, 6)))),
                Mul(f4, sin(MulInt(conformal_lat, 8))))
    IN  IF deg THEN degrees(geodetic_lat) ELSE geodetic_lat

\* Faulty: the delegate is given the caller's unit flag, so that a degrees
\* call converts twice.
isometric2geodetic_twice(isometric_lat_in, ell, deg) ==
    LET isometric_lat ==
            IF deg THEN radians(isometric_lat_in) ELSE isometric_lat_in
        conformal_lat == Sub(MulInt(atan(exp(isometric_lat)), 2), Div(pi, Two))
        geodetic_lat == conformal2geodetic(conformal_lat, ell, deg)
    IN  IF deg THEN degrees(geodetic_lat) ELSE geodetic_lat

\* Faulty: pi/2 is not taken off the conformal latitude.
isometric2geodetic_shifted(isometric_lat_in, ell, deg) ==
    LET isometric_lat ==
            IF deg THEN radians(isometric_lat_in) ELSE isometric_lat_in
        conformal_lat == MulInt(atan(exp(isometric_lat)), 2)
        geodetic_lat == conformal2geodetic(conformal_lat, ell, FALSE)
    IN  IF deg THEN degrees(geodetic_lat) ELSE geodetic_lat

isometric2geodetic(isometric_lat_in, ell, deg) ==
    LET isometric_lat ==
            IF deg THEN radians(isometric_lat_in) ELSE isometric_lat_in
        conformal_lat == Sub(MulInt(atan(exp(isometric_lat)), 2), Div(pi, Two))
        geodetic_lat == conformal2geodetic(conformal_lat, ell, FALSE)
    IN  IF deg THEN degrees(geodetic_lat) ELSE geodetic_lat

\* Faulty: no except clause, the ZeroDivisionError reaches the caller.
geodetic2conformal_point_unguarded(geodetic_lat, ell, deg) ==
    LET s == sanitize(geodetic_lat, ell, deg)
        lat == s[1]
        e == s[2].eccentricity
        f1 == Sub(One, Mul(e, sin(lat)))
        f2 == Add(One, Mul(e, sin(lat)))
        f3 == Sub(One, sin(lat))
        f4 == Add(One, sin(lat))
        conformal_lat ==
            Sub(MulInt(atan(sqrt(Mul(Div(f4, f3), Pow(Div(f1, f2), e)))), 2),
                Div(pi, Two))
    IN  IF ZeroDivisionError(f4, f3) \/ ZeroDivisionError(f1, f2)
        THEN Raised("ZeroDivisionError")
        ELSE IF deg THEN degrees(conformal_lat) ELSE conformal_lat

geodetic2conformal_point(geodetic_lat, ell, deg) ==
    LET s == sanitize(geodetic_lat, ell, deg)
        lat == s[1]
        e == s[2].eccentricity
        f1 == Sub(One, Mul(e, sin(lat)))
        f2 == Add(One, Mul(e, sin(lat)))
        f3 == Sub(One, sin(lat))
        f4 == Add(One, sin(lat))
        conformal_lat ==
            IF ZeroDivisionError(f4, f3) \/ ZeroDivisionError(f1, f2)
            THEN Div(pi, Two)
            ELSE Sub(MulInt(atan(sqrt(Mul(Div(f4, f3), Pow(Div(f1, f2), e)))), 2),
                     Div(pi, Two))
    IN  IF deg THEN degrees(conformal_lat) ELSE conformal_lat

geodetic2conformal(geodetic_lat, ell, deg) ==
    IF use_numpy /\ IsArray(geodetic_lat)
    THEN [array |-> [i \in DOMAIN geodetic_lat.array |->
                        geodetic2conformal_point(geodetic_lat.array[i], ell, deg)]]
    ELSE geodetic2conformal_point(geodetic_lat, ell, deg)

geodetic2rectifying(geodetic_lat_in, ell, deg) ==
    LET s == sanitize(geodetic_lat_in, ell, deg)
        geodetic_lat == s[1]
        n == s[2].thirdflattening
        f1 == Sub(DivInt(MulInt(n, 3), 2), DivInt(MulInt(IntPow(n, 3), 9), 16))
        f2 == Sub(DivInt(MulInt(IntPow(n, 2), 15), 16),
                  DivInt(MulInt(IntPow(n, 4), 15), 32))
        f3 == DivInt(MulInt(IntPow(n, 3), 35), 48)
        f4 == DivInt(MulInt(IntPow(n, 4), 315), 512)
        rectifying_lat ==
            Add(Sub(Add(Sub(geodetic_lat,
                            Mul(f1, sin(MulInt(geodetic_lat, 2)))),
                        Mul(f2, sin(MulInt(geodetic_lat, 4)))),
                    Mul(f3, sin(MulInt(geodetic_lat, 6)))),
                Mul(f4, sin(MulInt(geodetic_lat, 8))))
    IN  IF deg THEN degrees(rectifying_lat) ELSE rectifying_lat

rectifying2geodetic(rectifying_lat_in, ell, deg) ==
    LET s == sanitize(rectifying_lat_in, ell, deg)
        rectifying_lat == s[1]
        n == s[2].thirdflattening
        f1 == Sub(DivInt(MulInt(n, 3), 2), DivInt(MulInt(IntPow(n, 3), 27), 32))
        f2 == Sub(DivInt(MulInt(IntPow(n, 2), 21), 16),
                  DivInt(MulInt(IntPow(n, 4), 55), 32))
        f3 == DivInt(MulInt(IntPow(n, 3), 151), 96)
        f4 == DivInt(MulInt(IntPow(n, 4), 1097), 512)
        geodetic_lat ==
            Add(Add(Add(Add(rectifying_lat,
                            Mul(f1, sin(MulInt(rectifying_lat, 2)))),
                        Mul(f2, sin(MulInt(rectifying_lat, 4)))),
                    Mul(f3, sin(MulInt(rectifying_lat, 6)))),
                Mul(f4, sin(MulInt(rectifying_lat, 8))))
    IN  IF deg THEN degrees(geodetic_lat) ELSE geodetic_lat

geodetic2authalic(geodetic_lat_in, ell, deg) ==
    LET s == sanitize(geodetic_lat_in, ell, deg)
        geodetic_lat == s[1]
        e == s[2].eccentricity
        f1 == Add(Add(DivInt(IntPow(e, 2), 3),
                      DivInt(MulInt(IntPow(e, 4), 31), 180)),
                  DivInt(MulInt(IntPow(e, 6), 59), 560))
        f2 == Add(DivInt(MulInt(IntPow(e, 4), 17), 360),
                  DivInt(MulInt(IntPow(e, 6), 61), 1260))
        f3 == DivInt(MulInt(IntPow(e, 6), 383), 45360)
        authalic_lat ==
            Sub(Add(Sub(geodetic_lat, Mul(f1, sin(MulInt(geodetic_lat, 2)))),
                    Mul(f2, sin(MulInt(geodetic_lat, 4)))),
                Mul(f3, sin(MulInt(geodetic_lat, 6))))
    IN  IF deg THEN degrees(authalic_lat) ELSE authalic_lat

authalic2geodetic(authalic_lat_in, ell, deg) ==
    LET s == sanitize(authalic_lat_in, ell, deg)
        authalic_lat == s[1]
        e == s[2].eccentricity
        f1 == Add(Add(DivInt(IntPow(e, 2), 3),
                      DivInt(MulInt(IntPow(e, 4), 31), 180)),
                  DivInt(MulInt(IntPow(e, 6), 517), 5040))
        f2 == Add(DivInt(MulInt(IntPow(e, 4), 23), 360),
                  DivInt(MulInt(IntPow(e, 6), 251), 3780))
        f3 == DivInt(MulInt(IntPow(e, 6), 761), 45360)
        geodetic_lat ==
            Add(Add(Add(authalic_lat, Mul(f1, sin(MulInt(authalic_lat, 2)))),
                    Mul(f2, sin(MulInt(authalic_lat, 4)))),
                Mul(f3, sin(MulInt(authalic_lat, 6))))
    IN  IF deg THEN degrees(geodetic_lat) ELSE geodetic_lat

\* Faulty: the tangent is divided by sqrt(1 - e^2), as the inverse does.
geodetic2parametric_divided(geodetic_lat, ell, deg) ==
    LET s == sanitize(geodetic_lat, ell, deg)
        parametric_lat ==
            atan(Div(tan(s[1]), sqrt(Sub(One, IntPow(s[2].eccentricity, 2)))))
    IN  IF deg THEN degrees(parametric_lat) ELSE parametric_lat

geodetic2parametric(geodetic_lat, ell, deg) ==
    LET s == sanitize(geodetic_lat, ell, deg)
        parametric_lat ==
            atan(Mul(sqrt(Sub(One, IntPow(s[2].eccentricity, 2))), tan(s[1])))
    IN  IF deg THEN degrees(parametric_lat) ELSE parametric_lat

\* Faulty: the tangent is multiplied by sqrt(1 - e^2), as the forward
\* conversion does.
parametric2geodetic_multiplied(parametric_lat, ell, deg) ==
    LET s == sanitize(parametric_lat, ell, deg)
        geodetic_lat ==
            atan(Mul(sqrt(Sub(One, IntPow(s[2].eccentricity, 2))), tan(s[1])))
    IN  IF deg THEN degrees(geodetic_lat) ELSE geodetic_lat

parametric2geodetic(parametric_lat, ell, deg) ==
    LET s == sanitize(parametric_lat, ell, deg)
        geodetic_lat ==
            atan(Div(tan(s[1]), sqrt(Sub(One, IntPow(s[2].eccentricity, 2)))))
    IN  IF deg THEN degrees(geodetic_lat) ELSE geodetic_lat

(***************************************************************************)
(* The callers' inputs.                                                    *)
(***************************************************************************)
\* Latitudes in degrees: the equator, mid latitudes, near the poles, the poles.
LatDeg == {FromInt(d) : d \in {-90, -89, -60, -30, 0, 30, 60, 89, 90}}

\* The same in radians.
LatRad == {radians(x) : x \in LatDeg}

Lats(deg) == IF deg THEN LatDeg ELSE LatRad

\* pi/2 - 5e-10: short of the pole by less than the pole test's width, and
\* so close to it that its sine is 1.
NearPole == Sub(HalfPi, Lit(1, 0, 0, 0, 0, 500))

\* Latitudes next to the poles, for the two conversions that treat the
\* poles apart.
PoleLats(deg) == IF deg THEN {} ELSE {NearPole, Neg(NearPole)}

\* The longest array a caller passes.
MaxLen == 2

ArrayElems(deg) ==
    IF deg THEN {FromInt(30), FromInt(90), FromInt(-90)}
    ELSE {radians(FromInt(30)), HalfPi, Neg(HalfPi)}

\* Arrays exist where numpy does.
Arrays(deg) ==
    IF use_numpy
    THEN {[array |-> a] : a \in UNION {[1..n -> ArrayElems(deg)] : n \in 1..MaxLen}}
    ELSE {}

\* __all__: the public names of the module.
Functions ==
    {"geodetic2isometric", "isometric2geodetic", "geodetic2rectifying",
     "rectifying2geodetic", "geodetic2conformal", "conformal2geodetic",
     "geodetic2parametric", "parametric2geodetic", "geodetic2geocentric",
     "geocentric2geodetic", "geodetic2authalic", "authalic2geodetic"}

\* latitude.<fn>(lat, ell, deg): the function a public name is bound to.
Apply(fn, lat, ell, deg) ==
    CASE fn = "geodetic2isometric"  -> geodetic2isometric(lat, ell, deg)
      [] fn = "isometric2geodetic"  -> isometric2geodetic(lat, ell, deg)
      [] fn = "geodetic2rectifying" -> geodetic2rectifying(lat, ell, deg)
      [] fn = "rectifying2geodetic" -> rectifying2geodetic(lat, ell, deg)
      [] fn = "geodetic2conformal"  -> geodetic2conformal(lat, ell, deg)
      [] fn = "conformal2geodetic"  -> conformal2geodetic(lat, ell, deg)
      [] fn = "geodetic2parametric" -> geodetic2parametric(lat, ell, deg)
      [] fn = "parametric2geodetic" -> parametric2geodetic(lat, ell, deg)
      [] fn = "geodetic2geocentric" -> geodetic2geocentric(lat, ell, deg)
      [] fn = "geocentric2geodetic" -> geocentric2geodetic(lat, ell, deg)
      [] fn = "geodetic2authalic"   -> geodetic2authalic(lat, ell, deg)
      [] fn = "authalic2geodetic"   -> authalic2geodetic(lat, ell, deg)

(***************************************************************************)
(* The state machine: a caller calls one of the twelve functions and takes *)
(* its result.                                                             *)
(***************************************************************************)
Init ==
    /\ use_numpy \in BOOLEAN
    /\ ellipsoids = EllipsoidModels
    /\ pc = "idle"
    /\ call = <<>>
    /\ result = Zero

\* The call fn(lat, ell, deg) returns value; the function has read the
\* ellipsoid and the module's flag and written neither.
Returns(fn, lat, ell, deg, value) ==
    /\ pc' = "done"
    /\ call' = [fn |-> fn, lat |-> lat, ell |-> ell, deg |-> deg]
    /\ result' = value
    /\ UNCHANGED <<use_numpy, ellipsoids>>

\* Faulty: the call keeps the square of the eccentricity in the ellipsoid
\* object it was given.
CallGeodetic2Geocentric_keeping ==
    /\ pc = "idle"
    /\ \E deg \in BOOLEAN, ell \in EllArgs : \E lat \in Lats(deg) :
        /\ pc' = "done"
        /\ call' = [fn |-> "geodetic2geocentric", lat |-> lat, ell |-> ell,
                    deg |-> deg]
        /\ result' = geodetic2geocentric(lat, EllObj(ell), deg)
        /\ ellipsoids' =
              IF ell = "None" THEN ellipsoids
              ELSE [ellipsoids EXCEPT ![ell].eccentricity =
                                          IntPow(ellipsoids[ell].eccentricity, 2)]
        /\ UNCHANGED use_numpy

CallGeodetic2Geocentric ==
    /\ pc = "idle"
    /\ \E deg \in BOOLEAN, ell \in EllArgs : \E lat \in Lats(deg) :
        Returns("geodetic2geocentric", lat, ell, deg,
                geodetic2geocentric(lat, EllObj(ell), deg))

CallGeocentric2Geodetic ==
    /\ pc = "idle"
    /\ \E deg \in BOOLEAN, ell \in EllArgs : \E lat \in Lats(deg) :
        Returns("geocentric2geodetic", lat, ell, deg,
                geocentric2geodetic(lat, EllObj(ell), deg))

CallGeodetic2Isometric ==
    /\ pc = "idle"
    /\ \E deg \in BOOLEAN, ell \in EllArgs :
       \E lat \in Lats(deg) \cup PoleLats(deg) \cup Arrays(deg) :
        Returns("geodetic2isometric", lat, ell, deg,
                geodetic2isometric(lat, EllObj(ell), deg))

\* An isometric latitude is any real number, or an infinity.
CallIsometric2Geodetic ==
    /\ pc = "idle"
    /\ \E deg \in BOOLEAN, ell \in EllArgs :
       \E lat \in Lats(deg) \cup {inf, Neg(inf)} :
        Returns("isometric2geodetic", lat, ell, deg,
                isometric2geodetic(lat, EllObj(ell), deg))

CallGeodetic2Conformal ==
    /\ pc = "idle"
    /\ \E deg \in BOOLEAN, ell \in EllArgs :
       \E lat \in Lats(deg) \cup PoleLats(deg) \cup Arrays(deg) :
        Returns("geodetic2conformal", lat, ell, deg,
                geodetic2conformal(lat, EllObj(ell), deg))

CallConformal2Geodetic ==
    /\ pc = "idle"
    /\ \E deg \in BOOLEAN, ell \in EllArgs : \E lat \in Lats(deg) :
        Returns("conformal2geodetic", lat, ell, deg,
                conformal2geodetic(lat, EllObj(ell), deg))

CallGeodetic2Rectifying ==
    /\ pc = "idle"
    /\ \E deg \in BOOLEAN, ell \in EllArgs : \E lat \in Lats(deg) :
        Returns("geodetic2rectifying", lat, ell, deg,
                geodetic2rectifying(lat, EllObj(ell), deg))

CallRectifying2Geodetic ==
    /\ pc = "idle"
    /\ \E deg \in BOOLEAN, ell \in EllArgs : \E lat \in Lats(deg) :
        Returns("rectifying2geodetic", lat, ell, deg,
                rectifying2geodetic(lat, EllObj(ell), deg))

CallGeodetic2Authalic ==
    /\ pc = "idle"
    /\ \E deg \in BOOLEAN, ell \in EllArgs : \E lat \in Lats(deg) :
        Returns("geodetic2authalic", lat, ell, deg,
                geodetic2authalic(lat, EllObj(ell), deg))

CallAuthalic2Geodetic ==
    /\ pc = "idle"
    /\ \E deg \in BOOLEAN, ell \in EllArgs : \E lat \in Lats(deg) :
        Returns("authalic2geodetic", lat, ell, deg,
                authalic2geodetic(lat, EllObj(ell), deg))

CallGeodetic2Parametric ==
    /\ pc = "idle"
    /\ \E deg \in BOOLEAN, ell \in EllArgs : \E lat \in Lats(deg) :
        Returns("geodetic2parametric", lat, ell, deg,
                geodetic2parametric(lat, EllObj(ell), deg))

CallParametric2Geodetic ==
    /\ pc = "idle"
    /\ \E deg \in BOOLEAN, ell \in EllArgs : \E lat \in Lats(deg) :
        Returns("parametric2geodetic", lat, ell, deg,
                parametric2geodetic(lat, EllObj(ell), deg))

\* The caller has taken the result; nothing of the call is kept.
Done ==
    /\ pc = "done"
    /\ pc' = "idle"
    /\ call' = <<>>
    /\ result' = Zero
    /\ UNCHANGED <<use_numpy, ellipsoids>>

Next ==
    \/ CallGeodetic2Geocentric
    \/ CallGeocentric2Geodetic
    \/ CallGeodetic2Isometric
    \/ CallIsometric2Geodetic
    \/ CallGeodetic2Conformal
    \/ CallConformal2Geodetic
    \/ CallGeodetic2Rectifying
    \/ CallRectifying2Geodetic
    \/ CallGeodetic2Authalic
    \/ CallAuthalic2Geodetic
    \/ CallGeodetic2Parametric
    \/ CallParametric2Geodetic
    \/ Done

Spec == Init /\ [][Next]_vars

(***************************************************************************)
(* Properties.  Each is read off a finished call: call holds the           *)
(* arguments, result what the function returned.                           *)
(***************************************************************************)
\* The call just finished is a call of fn.
Called(fn) == pc = "done" /\ call.fn = fn

\* The ellipsoid object of the call just finished.
CallEll == EllObj(call.ell)

\* a and b are finite and differ by at most tol.
Near(a, b, tol) ==
    a.k = "fin" /\ b.k = "fin" /\ Le(Abs(Sub(a, b)), tol)

\* 1e-6 degrees, in the unit of the call.
RoundTripTol(deg) ==
    IF deg THEN Lit(1, 0, 0, 0, 100, 0) ELSE radians(Lit(1, 0, 0, 0, 100, 0))

\* 1e-8, in degrees or radians: the resolution to which two values of the
\* fixed-point arithmetic are compared where the statement is an equation
\* between differently computed values.
Resolution == Lit(1, 0, 0, 0, 1, 0)

\* The right angle in the unit of the call.
RightAngle(deg) == IF deg THEN FromInt(90) ELSE HalfPi

\* lat lies strictly between the poles.
Interior(lat, deg) == lat.k = "fin" /\ Lt(Abs(lat), RightAngle(deg))

Forward ==
    {"geodetic2geocentric", "geodetic2isometric", "geodetic2conformal",
     "geodetic2rectifying", "geodetic2authalic", "geodetic2parametric"}

Inverse(fn) ==
    CASE fn = "geodetic2geocentric" -> "geocentric2geodetic"
      [] fn = "geodetic2isometric"  -> "isometric2geodetic"
      [] fn = "geodetic2conformal"  -> "conformal2geodetic"
      [] fn = "geodetic2rectifying" -> "rectifying2geodetic"
      [] fn = "geodetic2authalic"   -> "authalic2geodetic"
      [] fn = "geodetic2parametric" -> "parametric2geodetic"

\* The pairs whose inverse is a closed formula.
ClosedForm == {"geodetic2geocentric", "geodetic2parametric"}

\* The call just finished is a forward conversion of a latitude strictly
\* between the poles.
ForwardCall ==
    /\ pc = "done"
    /\ call.fn \in Forward
    /\ ~IsArray(call.lat)
    /\ Interior(call.lat, call.deg)

\* The inverse, applied to the result, gives the latitude back to 1e-6 deg.
ComesBack ==
    Near(Apply(Inverse(call.fn), result, CallEll, call.deg), call.lat,
         RoundTripTol(call.deg))

\* C1 as the specification states it: for each of the six pairs, every
\* latitude strictly between the poles and every ellipsoid, near-spherical
\* or highly eccentric, inverse(forward(phi)) is phi to within 1e-6 degrees.
C1_RoundTripEveryEllipsoid == ForwardCall => ComesBack

\* C1, as the code has it: inverse(forward(phi)) is phi to within 1e-6
\* degrees for the geocentric and the parametric pair on every ellipsoid,
\* and for the isometric, conformal, rectifying and authalic pairs on the
\* ellipsoids of small eccentricity (e = 0.001 and WGS84, e = 0.0818).  On
\* the highly eccentric ellipsoid (e = 0.6) the truncated series of these
\* four inverses do not come back to within the tolerance.
C1_RoundTrip ==
    ForwardCall /\ (call.ell # "eccentric" \/ call.fn \in ClosedForm)
        => ComesBack

\* A series pair comes back on WGS84 from a result that differs from phi.
C1_Witness ==
    /\ ForwardCall
    /\ call.fn = "geodetic2authalic"
    /\ call.ell = "None"
    /\ call.deg
    /\ call.lat = FromInt(60)
    /\ ~Near(result, call.lat, RoundTripTol(TRUE))
    /\ ComesBack

\* C2: geodetic2isometric of a point within 1e-9 rad of +pi/2 is +infinity,
\* within 1e-9 rad of -pi/2 is -infinity, and otherwise the finite value
\* asinh(tan(lat)) - e*atanh(e*sin(lat)), in the unit of the call; so 90
\* degrees gives +inf, -90 degrees -inf and 0 gives 0.
C2_IsometricPoles ==
    Called("geodetic2isometric") /\ ~IsArray(call.lat) =>
        LET lat == IF call.deg THEN radians(call.lat) ELSE call.lat
            e == (IF call.ell = "None" THEN Ellipsoid
                  ELSE ellipsoids[call.ell]).eccentricity
            formula == Sub(asinh(tan(lat)), Mul(e, atanh(Mul(e, sin(lat)))))
        IN  IF Le(Abs(Sub(lat, HalfPi)), Lit(1, 0, 0, 0, 0, 1000))
            THEN result = inf
            ELSE IF Le(Abs(Add(lat, HalfPi)), Lit(1, 0, 0, 0, 0, 1000))
            THEN result = Neg(inf)
            ELSE /\ result.k = "fin"
                 /\ result = IF call.deg THEN degrees(formula) ELSE formula
                 /\ call.lat = Zero => result = Zero

\* A latitude short of the north pole, but within the width of the test,
\* has given +infinity.
C2_Witness ==
    /\ Called("geodetic2isometric")
    /\ call.lat = NearPole
    /\ call.lat # HalfPi
    /\ ~call.deg
    /\ result = inf

\* C3: geodetic2conformal returns +pi/2 (90 when in degrees), and no error,
\* whenever f3 = 1 - sin(phi) is zero, with numpy and without; for every
\* other input it returns 2*atan(sqrt((f4/f3)*(f1/f2)^e)) - pi/2.
C3_ConformalPole ==
    Called("geodetic2conformal") /\ ~IsArray(call.lat) =>
        LET lat == IF call.deg THEN radians(call.lat) ELSE call.lat
            e == (IF call.ell = "None" THEN Ellipsoid
                  ELSE ellipsoids[call.ell]).eccentricity
            f1 == Sub(One, Mul(e, sin(lat)))
            f2 == Add(One, Mul(e, sin(lat)))
            f3 == Sub(One, sin(lat))
            f4 == Add(One, sin(lat))
            formula ==
                Sub(MulInt(atan(sqrt(Mul(Div(f4, f3), Pow(Div(f1, f2), e)))), 2),
                    HalfPi)
        IN  IF IsZero(f3)
            THEN result = RightAngle(call.deg)
            ELSE result = IF call.deg THEN degrees(formula) ELSE formula

\* Without numpy the division at the north pole was by zero, and the call
\* has returned 90 degrees.
C3_Witness ==
    /\ Called("geodetic2conformal")
    /\ ~use_numpy
    /\ call.deg
    /\ call.lat = FromInt(90)
    /\ IsZero(Sub(One, sin(radians(call.lat))))
    /\ result = FromInt(90)

\* C4: for each of the twelve functions f, every ellipsoid and every input
\* x, f(x, deg=True) = degrees(f(radians(x), deg=False)), the pole branches
\* of geodetic2isometric and the delegation of isometric2geodetic included.
C4_DegreesRadians ==
    pc = "done" /\ call.deg /\ ~IsArray(call.lat) =>
        result = degrees(Apply(call.fn, radians(call.lat), CallEll, FALSE))

\* A degrees call of isometric2geodetic with a finite result that is not 0.
C4_Witness ==
    /\ Called("isometric2geodetic")
    /\ call.deg
    /\ call.lat = FromInt(60)
    /\ result.k = "fin"
    /\ ~IsZero(result)
    /\ result = degrees(isometric2geodetic(radians(call.lat), CallEll, FALSE))

\* a = -b: as infinities exactly, as finite values to the resolution.
Opposite(a, b) ==
    IF a.k = "fin" /\ b.k = "fin" THEN Near(a, Neg(b), Resolution)
    ELSE a.k = "inf" /\ b.k = "inf" /\ a.s = -b.s

\* C5: for each of the twelve functions f, every ellipsoid and every
\* latitude phi, f(-phi) = -f(phi); geodetic2isometric gives +inf and -inf
\* at +90 and -90 degrees, geodetic2conformal +pi/2 and -pi/2.
C5_OddSymmetry ==
    pc = "done" /\ ~IsArray(call.lat) =>
        /\ Opposite(Apply(call.fn, Neg(call.lat), CallEll, call.deg), result)
        /\ Called("geodetic2isometric") /\ call.lat = RightAngle(call.deg)
              => result = inf
        /\ Called("geodetic2isometric") /\ call.lat = Neg(RightAngle(call.deg))
              => result = Neg(inf)
        /\ Called("geodetic2conformal") /\ call.lat = RightAngle(call.deg)
              => result = RightAngle(call.deg)
        /\ Called("geodetic2conformal") /\ call.lat = Neg(RightAngle(call.deg))
              => result = Neg(RightAngle(call.deg))

\* geodetic2conformal at the south pole: -pi/2, the opposite of what the
\* guard gives at the north pole.
C5_Witness ==
    /\ Called("geodetic2conformal")
    /\ ~call.deg
    /\ call.lat = Neg(HalfPi)
    /\ result = Neg(HalfPi)
    /\ geodetic2conformal(HalfPi, CallEll, FALSE) = HalfPi

\* C6: for every oblate ellipsoid and every geodetic latitude phi strictly
\* between 0 and 90 degrees,
\* geodetic2geocentric(phi) <= geodetic2parametric(phi) <= phi.
C6_Ordering ==
    /\ Called("geodetic2parametric")
    /\ Interior(call.lat, call.deg)
    /\ Lt(Zero, call.lat)
    => /\ Le(geodetic2geocentric(call.lat, CallEll, call.deg), result)
       /\ Le(result, call.lat)

\* The three latitudes are distinct on the highly eccentric ellipsoid.
C6_Witness ==
    /\ Called("geodetic2parametric")
    /\ call.ell = "eccentric"
    /\ call.deg
    /\ call.lat = FromInt(30)
    /\ Lt(geodetic2geocentric(call.lat, CallEll, call.deg), result)
    /\ Lt(result, call.lat)

\* C7: each of the twelve functions maps 0 to exactly 0, for every ellipsoid
\* and both unit flags.
C7_ZeroToZero ==
    pc = "done" /\ ~IsArray(call.lat) /\ call.lat = Zero => result = Zero

\* geodetic2conformal of 0 on the highly eccentric ellipsoid is 0.
C7_Witness ==
    /\ Called("geodetic2conformal")
    /\ call.ell = "eccentric"
    /\ call.lat = Zero
    /\ result = Zero

\* C8: for an array, geodetic2isometric and geodetic2conformal return an
\* array of the same shape whose element i is the per-point function of
\* input element i, whatever the other elements are; for a scalar they
\* return the per-point result.
C8_Elementwise ==
    /\ Called("geodetic2isometric") =>
          IF IsArray(call.lat)
          THEN /\ IsArray(result)
               /\ DOMAIN result.array = DOMAIN call.lat.array
               /\ \A i \in DOMAIN call.lat.array :
                     result.array[i] =
                        geodetic2isometric_point(call.lat.array[i], CallEll,
                                                 call.deg)
          ELSE result = geodetic2isometric_point(call.lat, CallEll, call.deg)
    /\ Called("geodetic2conformal") =>
          IF IsArray(call.lat)
          THEN /\ IsArray(result)
               /\ DOMAIN result.array = DOMAIN call.lat.array
               /\ \A i \in DOMAIN call.lat.array :
                     result.array[i] =
                        geodetic2conformal_point(call.lat.array[i], CallEll,
                                                 call.deg)
          ELSE result = geodetic2conformal_point(call.lat, CallEll, call.deg)

\* An array with a pole element after an ordinary one: the ordinary element
\* has its finite value, the pole element +infinity.
C8_Witness ==
    /\ Called("geodetic2isometric")
    /\ IsArray(call.lat)
    /\ call.deg
    /\ call.lat.array = <<FromInt(30), FromInt(90)>>
    /\ result.array[1].k = "fin"
    /\ result.array[1] = geodetic2isometric_point(FromInt(30), CallEll, TRUE)
    /\ result.array[2] = inf

C10_IsometricDelegates ==
    Called("isometric2geodetic") =>
        LET x == IF call.deg THEN radians(call.lat) ELSE call.lat
            c == Sub(MulInt(atan(exp(x)), 2), HalfPi)
            r == conformal2geodetic(c, CallEll, FALSE)
        IN  /\ result = IF call.deg THEN degrees(r) ELSE r
            /\ result.k = "fin"

\* An infinite isometric latitude has given the pole, to the resolution.
C10_Witness ==
    /\ Called("isometric2geodetic")
    /\ call.ell = "None"
    /\ ~call.deg
    /\ call.lat = inf
    /\ Near(result, HalfPi, Resolution)
====
